---- MODULE Spec2Model ----
(***************************************************************************)
(* A model of epublib/reader.py: streaming decompression of an EPUB        *)
(* archive, resolution of the rootfiles declared by container.xml, path    *)
(* normalization, manifest-driven text extraction and dump_contents.       *)
(*                                                                         *)
(* Representation.  A Python str that the code takes apart (entry paths,   *)
(* hrefs, full-path attributes) is a sequence of one-character strings, so *)
(* that split("/"), os.path.basename, pathlib's suffix and the f-string    *)
(* join are computed character by character.  A byte payload is a sequence *)
(* of XML element tokens (one token stands for the bytes of one element);  *)
(* a chunk is a piece of that sequence.  Payloads are well-formed UTF-8    *)
(* XML, so decode() and the lenient parser return the element sequence.    *)
(* Optional[T] is <<>> for None and <<v>> for a value v.                   *)
(***************************************************************************)
EXTENDS Naturals, Sequences, FiniteSets

VARIABLES
    prefix,        \* the directory the archive's producer wrapped every entry in ("" when none)
    pc,            \* position in read(): "stream", "chunks", "store", "read", "done", "failed"
    cur,           \* the entry last yielded by stream_unzip: [path, chunks]
    pos,           \* number of chunks of cur consumed from its chunk iterator
    is_textfile,   \* uncompress_epub's is_textfile for cur
    file_bytes,    \* read_unzipped_chunks's accumulator (Optional)
    container,     \* payload of the last container.xml handed to extract_root_path (Optional)
    rootfiles,     \* uncompress_epub's rootfiles, then UncompressedEpub.rootfiles
    files,         \* uncompress_epub's files, then UncompressedEpub.files
    idx,           \* read_uncompressed_epubs: index of the next rootfile
    built,         \* rootfile paths the publications were built from, in order
    publications,  \* read_uncompressed_epubs's publications
    epubs,         \* what read() returned (Optional)
    error,         \* the exception read() raised ("" when none)
    dumped,        \* last dump_contents() call: <<>> or <<[epub, text]>>
    wpc,           \* paired run: "stream", "read"
    wprefix,       \* paired run: the wrapping directory
    plain,         \* paired run: [files, rootfiles] of the archive as given
    wrapped,       \* paired run: [files, rootfiles] of the same archive, wrapped
    wres           \* paired run: <<>> or <<[plain, wrapped]>>, the two results of read()

vars == <<prefix, pc, cur, pos, is_textfile, file_bytes, container, rootfiles,
          files, idx, built, publications, epubs, error, dumped,
          wpc, wprefix, plain, wrapped, wres>>

mainvars == <<prefix, pc, cur, pos, is_textfile, file_bytes, container, rootfiles,
              files, idx, built, publications, epubs, error, dumped>>

wrapvars == <<wpc, wprefix, plain, wrapped, wres>>

(***************************************************************************)
(* Bounds.                                                                 *)
(***************************************************************************)
\* The largest number of distinct paths retained in the file map.
MaxFiles == 4

(***************************************************************************)
(* Optional values.                                                        *)
(***************************************************************************)
None == <<>>
Some(v) == <<v>>
Val(o) == o[1]

(***************************************************************************)
(* Strings as character sequences.                                         *)
(***************************************************************************)
RECURSIVE Find(_, _, _)
\* str.find: the first index >= i of character c in s, 0 when there is none.
Find(s, c, i) ==
    IF i > Len(s) THEN 0
    ELSE IF s[i] = c THEN i
    ELSE Find(s, c, i + 1)

RECURSIVE RFind(_, _, _)
\* str.rfind: the last index <= i of character c in s, 0 when there is none.
RFind(s, c, i) ==
    IF i = 0 THEN 0
    ELSE IF s[i] = c THEN i
    ELSE RFind(s, c, i - 1)

RECURSIVE Split(_)
\* path.split("/"): the list of segments; "" splits into [""].
Split(s) ==
    LET i == Find(s, "/", 1) IN
    IF i = 0 THEN <<s>>
    ELSE <<SubSeq(s, 1, i - 1)>> \o Split(SubSeq(s, i + 1, Len(s)))

RECURSIVE Join(_)
\* "/".join(segments)
Join(segs) ==
    IF Len(segs) = 0 THEN <<>>
    ELSE IF Len(segs) = 1 THEN segs[1]
    ELSE segs[1] \o <<"/">> \o Join(Tail(segs))

\* os.path.basename(filepath): what follows the last "/".
Basename(s) == SubSeq(s, RFind(s, "/", Len(s)) + 1, Len(s))

RECURSIVE LastNonEmpty(_)
LastNonEmpty(segs) ==
    IF Len(segs) = 0 THEN <<>>
    ELSE IF segs[Len(segs)] # <<>> THEN segs[Len(segs)]
    ELSE LastNonEmpty(SubSeq(segs, 1, Len(segs) - 1))

\* pathlib.Path(filepath).name: the final component, empty segments
\* (trailing or doubled slashes) collapsed.
PathName(s) == LastNonEmpty(Split(s))

\* pathlib.Path(filepath).suffix: name[i:] for i = name.rfind("."), when
\* 0 < i < len(name) - 1 (0-based); "" otherwise.  Case is kept.
Suffix(s) ==
    LET name == PathName(s)
        i == RFind(name, ".", Len(name))
    IN IF i > 1 /\ i < Len(name) THEN SubSeq(name, i, Len(name)) ELSE <<>>

(***************************************************************************)
(* Program constants.                                                      *)
(***************************************************************************)
CONTENT_FILETYPES ==
    { <<".", "x", "h", "t", "m", "l">>, <<".", "x", "m", "l">>, <<".", "o", "p", "f">> }

CONTAINER_XML == <<"c", "o", "n", "t", "a", "i", "n", "e", "r", ".", "x", "m", "l">>

OEBPS_PACKAGE == "application/oebps-package+xml"
XHTML == "application/xhtml+xml"

(***************************************************************************)
(* XML element tokens.  tag is the namespace-qualified tag; mt and ref are *)
(* the optional media-type and full-path/href attributes; text is the      *)
(* character data of an (X)HTML element.                                   *)
(***************************************************************************)
Rootfile(mt, fullpath) == [tag |-> "container:rootfile", mt |-> mt, ref |-> fullpath, text |-> ""]
Item(mt, href) == [tag |-> "opf:item", mt |-> mt, ref |-> href, text |-> ""]
Element(tag) == [tag |-> tag, mt |-> None, ref |-> None, text |-> ""]
Para(text) == [tag |-> "xhtml:p", mt |-> None, ref |-> None, text |-> text]

(***************************************************************************)
(* The code, operation by operation.                                       *)
(***************************************************************************)
\* decode(data): the str of a well-formed UTF-8 payload (its element tokens).
decode(data) == data

\* parse_as_etree(xml_data): decode, re-encode, lenient parse: the elements
\* of the document in document order.
parse_as_etree(xml_data) == decode(xml_data)

\* Epub(texts)
Epub(texts) == [texts |-> texts]

\* dump_contents, one iteration of its loop:  epub_text += text
DumpStepSeparated(epub_text, text) == epub_text \o text \o "\n"
DumpStep(epub_text, text) == epub_text \o text

RECURSIVE DumpLoop(_, _, _)
DumpLoop(texts, k, epub_text) ==
    IF k > Len(texts) THEN epub_text
    ELSE DumpLoop(texts, k + 1, DumpStep(epub_text, texts[k]))

\* Epub.dump_contents()
dump_contents(epub) == DumpLoop(epub.texts, 1, "")

\* uncompress_epub: is_textfile = pathlib.Path(filepath).suffix in CONTENT_FILETYPES
IsTextfile(filepath) == Suffix(filepath) \in CONTENT_FILETYPES

\* read_unzipped_chunks, one iteration of its loop.
ChunkStep(fb, chunk, textfile) ==
    IF ~textfile THEN fb
    ELSE IF fb = None THEN Some(chunk)
    ELSE Some(Val(fb) \o chunk)

\* read_unzipped_chunks: the for loop ends when the chunk iterator is exhausted.
LoopExitEarly(textfile, p, n) == ~textfile \/ p = n
LoopExit(textfile, p, n) == p = n

RECURSIVE read_unzipped_chunks(_, _, _, _)
\* read_unzipped_chunks(file_chunks, is_textfile), from chunk p + 1 on.
read_unzipped_chunks(chunks, textfile, p, fb) ==
    IF LoopExit(textfile, p, Len(chunks)) THEN fb
    ELSE read_unzipped_chunks(chunks, textfile, p + 1, ChunkStep(fb, chunks[p + 1], textfile))

\* extract_root_path(container_file)
extract_root_path(container_file) ==
    LET tree == parse_as_etree(container_file)
        root_files == SelectSeq(tree, LAMBDA e : e.tag = "container:rootfile" /\ e.mt # None)
        kept == SelectSeq(root_files,
                          LAMBDA e : Val(e.mt) = OEBPS_PACKAGE /\ e.ref # None)
    IN [k \in 1..Len(kept) |-> Val(kept[k].ref)]

\* uncompress_epub, the rest of one loop iteration once the chunks are read:
\* skip, take the rootfiles from container.xml, or keep the payload.
StoreEntry(fs, rfs, cont, filepath, current_bytes) ==
    IF current_bytes = None
    THEN [files |-> fs, rootfiles |-> rfs, container |-> cont]
    ELSE IF Basename(filepath) = CONTAINER_XML
    THEN [files |-> fs, rootfiles |-> extract_root_path(Val(current_bytes)),
          container |-> current_bytes]
    ELSE [files |-> [p \in DOMAIN fs \cup {filepath} |->
                        IF p = filepath THEN Val(current_bytes) ELSE fs[p]],
          rootfiles |-> rfs, container |-> cont]

\* normalize_path(rootfiles, files).  When two kept paths differ in their
\* first segment only, the dict keeps the one inserted last; insertion order
\* is not part of the model, and NoCollision below states that the paths of
\* the model never collide.
normalize_path_verbatim(rfs, fs) == fs
normalize_path(rfs, fs) ==
    IF rfs[1] \in DOMAIN fs THEN fs
    ELSE LET kept == {p \in DOMAIN fs : Len(Split(p)) # 1}
             Normalized(p) == Join(Tail(Split(p)))
         IN [q \in {Normalized(p) : p \in kept} |->
                fs[CHOOSE p \in kept : Normalized(p) = q]]

\* uncompress_epub, after the loop: the rootfile check and the normalization.
UncompressEnd(rfs, fs) ==
    IF Len(rfs) = 0
    THEN [error |-> "MalformedEpubException", files |-> fs]
    ELSE [error |-> "", files |-> normalize_path(rfs, fs)]

\* fix_mediatype(mediatype)
fix_mediatype(mediatype) ==
    IF mediatype = Some("image/jpg") THEN Some("image/jpeg") ELSE mediatype

\* tree.find("{OPF}manifest"): the index of the manifest element, 0 for None.
FindManifest(tree) ==
    IF \E k \in 1..Len(tree) : tree[k].tag = "opf:manifest"
    THEN CHOOSE k \in 1..Len(tree) :
            /\ tree[k].tag = "opf:manifest"
            /\ \A j \in 1..(k - 1) : tree[j].tag # "opf:manifest"
    ELSE 0

\* manifest.iter(): the manifest element and its descendants in document
\* order; the subtree ends at the manifest's next sibling (opf:spine).
ManifestIter(tree, m) ==
    LET ends == {k \in (m + 1)..Len(tree) : tree[k].tag = "opf:spine"}
        last == IF ends = {} THEN Len(tree)
                ELSE (CHOOSE k \in ends : \A j \in ends : k <= j) - 1
    IN SubSeq(tree, m, last)

RECURSIVE html2text(_)
\* html2text.html2text(str_data): the markup is dropped and every paragraph
\* is rendered as its text followed by a blank line.
html2text(str_data) ==
    IF Len(str_data) = 0 THEN ""
    ELSE (IF Head(str_data).tag = "xhtml:p" THEN Head(str_data).text \o "\n\n" ELSE "")
         \o html2text(Tail(str_data))

\* extract_textfiles: normalized_path = f"{root_dir}/{filepath}"
NormalizedPath(root_dir, filepath) == root_dir \o <<"/">> \o filepath

\* extract_textfiles, one iteration of its loop over manifest.iter().
ItemStepSkipMissing(texts, item, fs, root_dir) ==
    IF item.tag # "opf:item" THEN [error |-> "", texts |-> texts]
    ELSE IF fix_mediatype(item.mt) = Some(XHTML)
    THEN IF item.ref = None THEN [error |-> "", texts |-> texts]
         ELSE LET normalized_path == NormalizedPath(root_dir, Val(item.ref)) IN
              IF normalized_path \notin DOMAIN fs
              THEN [error |-> "", texts |-> texts]
              ELSE [error |-> "",
                    texts |-> Append(texts, html2text(decode(fs[normalized_path])))]
    ELSE [error |-> "", texts |-> texts]
ItemStepAnyMediatype(texts, item, fs, root_dir) ==
    IF item.tag # "opf:item" THEN [error |-> "", texts |-> texts]
    ELSE IF item.ref = None THEN [error |-> "", texts |-> texts]
         ELSE LET normalized_path == NormalizedPath(root_dir, Val(item.ref)) IN
              IF normalized_path \notin DOMAIN fs
              THEN [error |-> "KeyError", texts |-> texts]
              ELSE [error |-> "",
                    texts |-> Append(texts, html2text(decode(fs[normalized_path])))]
ItemStep(texts, item, fs, root_dir) ==
    IF item.tag # "opf:item" THEN [error |-> "", texts |-> texts]
    ELSE IF fix_mediatype(item.mt) = Some(XHTML)
    THEN IF item.ref = None THEN [error |-> "", texts |-> texts]
         ELSE LET normalized_path == NormalizedPath(root_dir, Val(item.ref)) IN
              IF normalized_path \notin DOMAIN fs
              THEN [error |-> "KeyError", texts |-> texts]
              ELSE [error |-> "",
                    texts |-> Append(texts, html2text(decode(fs[normalized_path])))]
    ELSE [error |-> "", texts |-> texts]

RECURSIVE ItemsLoop(_, _, _, _, _)
ItemsLoop(items, k, texts, fs, root_dir) ==
    IF k > Len(items) THEN [error |-> "", texts |-> texts]
    ELSE LET r == ItemStep(texts, items[k], fs, root_dir) IN
         IF r.error # "" THEN r
         ELSE ItemsLoop(items, k + 1, r.texts, fs, root_dir)

\* extract_textfiles(rootfile, files, root_dir): the texts of the Epub, or
\* the exception raised.
extract_textfiles(rootfile, fs, root_dir) ==
    LET tree == parse_as_etree(rootfile)
        manifest == FindManifest(tree)
    IN IF manifest = 0
       THEN [error |-> "MalformedEpubException", texts |-> <<>>]
       ELSE ItemsLoop(ManifestIter(tree, manifest), 1, <<>>, fs, root_dir)

\* read_uncompressed_epubs: rootfile_dir = rootfile_path.split("/")[0]
RootfileDir(rootfile_path) == Split(rootfile_path)[1]

\* read_uncompressed_epubs: the k-th rootfile_path of its for loop.
NextRootfileReversed(rfs, k) == rfs[Len(rfs) + 1 - k]
NextRootfile(rfs, k) == rfs[k]

\* read_uncompressed_epubs, the body of one loop iteration.
ReadRootfileBody(rootfile_path, fs) ==
    IF rootfile_path \notin DOMAIN fs
    THEN [error |-> "KeyError", texts |-> <<>>]
    ELSE extract_textfiles(fs[rootfile_path], fs, RootfileDir(rootfile_path))

RECURSIVE read_uncompressed_epubs(_, _, _, _)
\* read_uncompressed_epubs(uncompressed_epub), from the k-th rootfile on.
read_uncompressed_epubs(rfs, fs, k, pubs) ==
    IF k > Len(rfs) THEN [error |-> "", epubs |-> pubs]
    ELSE LET r == ReadRootfileBody(NextRootfile(rfs, k), fs) IN
         IF r.error # "" THEN [error |-> r.error, epubs |-> <<>>]
         ELSE read_uncompressed_epubs(rfs, fs, k + 1, Append(pubs, Epub(r.texts)))

\* read(stream) from the end of the stream on, as one function of what
\* uncompress_epub collected: the exception raised ("" for none) and the
\* Epubs returned.
ReadResult(u) ==
    LET e == UncompressEnd(u.rootfiles, u.files) IN
    IF e.error # "" THEN [error |-> e.error, epubs |-> <<>>]
    ELSE read_uncompressed_epubs(u.rootfiles, e.files, 1, <<>>)

\* uncompress_epub, one whole loop iteration on the entry (filepath, chunks).
Ingest(u, filepath, chunks) ==
    LET current_bytes == read_unzipped_chunks(chunks, IsTextfile(filepath), 0, None)
        r == StoreEntry(u.files, u.rootfiles, None, filepath, current_bytes)
    IN [files |-> r.files, rootfiles |-> r.rootfiles]

(***************************************************************************)
(* The archives read.  Entry paths, hrefs and payloads are drawn from the  *)
(* sets below; an archive is any sequence of these entries, in any order   *)
(* and with repetitions, that retains at most MaxFiles distinct paths.     *)
(***************************************************************************)
PathContainer == <<"M", "/">> \o CONTAINER_XML
PathOpf == <<"E", "/", "p", ".", "o", "p", "f">>
PathRootOpf == <<"p", ".", "o", "p", "f">>
PathDeepOpf == <<"E", "/", "F", "/", "q", ".", "o", "p", "f">>
PathInnerOpf == <<"F", "/", "q", ".", "o", "p", "f">>
PathA == <<"E", "/", "a", ".", "x", "h", "t", "m", "l">>
PathB == <<"E", "/", "b", ".", "x", "h", "t", "m", "l">>
PathDeepB == <<"E", "/", "F", "/", "b", ".", "x", "h", "t", "m", "l">>
PathUpper == <<"E", "/", "C", ".", "X", "H", "T", "M", "L">>
PathCss == <<"E", "/", "s", ".", "c", "s", "s">>
PathMimetype == <<"m", "i", "m", "e", "t", "y", "p", "e">>
PathHidden == <<"E", "/", ".", "x", "m", "l">>
PathEmptyXml == <<"E", "/", "e", ".", "x", "m", "l">>
HrefA == <<"a", ".", "x", "h", "t", "m", "l">>
HrefB == <<"b", ".", "x", "h", "t", "m", "l">>
EmptyPath == <<>>

Package(fullpath) == Rootfile(Some(OEBPS_PACKAGE), Some(fullpath))

\* container.xml documents: one rootfile; several rootfiles of which some do
\* not qualify and one is declared twice; no qualifying rootfile; an empty
\* full-path; a rootfile at the OCF root; a rootfile that is no package
\* document; a rootfile path relative to a nested OCF root.
Containers ==
    { << <<Package(PathOpf)>> >>,
      << <<Package(PathOpf), Rootfile(Some("text/plain"), Some(PathB))>>,
         <<Rootfile(Some(OEBPS_PACKAGE), None), Package(PathDeepOpf), Package(PathDeepOpf)>> >>,
      << <<Rootfile(Some("text/plain"), Some(PathOpf)), Rootfile(None, Some(PathOpf))>>,
         <<Rootfile(Some(OEBPS_PACKAGE), None)>> >>,
      << <<Package(EmptyPath)>> >>,
      << <<Package(PathRootOpf)>> >>,
      << <<Package(PathA)>> >>,
      << <<Package(PathInnerOpf)>> >> }

\* The package document E/p.opf: five elements inside the manifest, of which
\* the first and the third are content documents, and an item after it.
OpfChunks ==
    << <<Element("opf:metadata"), Element("opf:manifest"), Item(Some(XHTML), Some(HrefA)),
         Item(Some("image/jpg"), Some(HrefB))>>,
       <<Item(Some(XHTML), Some(HrefB)), Item(Some(XHTML), None),
         Element("xhtml:item"), Item(None, Some(HrefA)),
         Element("opf:spine"), Item(Some(XHTML), Some(HrefA))>> >>

Entries ==
    { [path |-> PathContainer, chunks |-> c] : c \in Containers }
    \cup
    { [path |-> PathOpf, chunks |-> OpfChunks],
      [path |-> PathRootOpf,
       chunks |-> << <<Element("opf:manifest"), Item(Some(XHTML), Some(HrefA))>> >>],
      [path |-> PathDeepOpf,
       chunks |-> << <<Element("opf:manifest")>>, <<Item(Some(XHTML), Some(HrefB))>> >>],
      [path |-> PathA, chunks |-> << <<Element("xhtml:h1"), Para("one")>> >>],
      [path |-> PathB, chunks |-> << <<Para("two")>>, <<Para("three")>> >>],
      [path |-> PathDeepB, chunks |-> << <<Para("deep")>> >>],
      [path |-> PathUpper, chunks |-> << <<Para("upper")>> >>],
      [path |-> PathCss, chunks |-> << <<Element("css")>>, <<Element("css")>> >>],
      [path |-> PathMimetype, chunks |-> << <<Element("mimetype")>> >>],
      [path |-> PathHidden, chunks |-> << <<Para("hidden")>> >>],
      [path |-> PathEmptyXml, chunks |-> << >>] }

\* The wrapping directories of the archives read: none, or W/.
Prefixes == { <<>>, <<"W", "/">> }

\* The wrapping directories of the paired run: W/, or E/.
WrapPrefixes == { <<"W", "/">>, <<"E", "/">> }

EmptyFiles == [p \in {} |-> <<>>]
NoEntry == [path |-> <<>>, chunks |-> <<>>]

\* Whether the entry adds a path to the file map.
Retained(filepath, chunks) ==
    /\ IsTextfile(filepath)
    /\ chunks # <<>>
    /\ Basename(filepath) # CONTAINER_XML

Fits(fs, filepath, chunks) ==
    Cardinality(DOMAIN fs \cup (IF Retained(filepath, chunks) THEN {filepath} ELSE {}))
        <= MaxFiles

(***************************************************************************)
(* read(stream), step by step.                                             *)
(***************************************************************************)
MainInit ==
    /\ prefix \in Prefixes
    /\ pc = "stream"
    /\ cur = NoEntry
    /\ pos = 0
    /\ is_textfile = FALSE
    /\ file_bytes = None
    /\ container = None
    /\ rootfiles = <<>>
    /\ files = EmptyFiles
    /\ idx = 1
    /\ built = <<>>
    /\ publications = <<>>
    /\ epubs = None
    /\ error = ""
    /\ dumped = None

WrapIdle ==
    /\ wpc = "off"
    /\ wprefix = <<>>
    /\ plain = [files |-> EmptyFiles, rootfiles |-> <<>>]
    /\ wrapped = [files |-> EmptyFiles, rootfiles |-> <<>>]
    /\ wres = None

Init == MainInit /\ WrapIdle

\* read() raises: nothing is returned.
Raise(exc) ==
    /\ pc' = "failed"
    /\ error' = exc
    /\ epubs' = None

\* stream_unzip yields the next entry, and uncompress_epub classifies it.
\* The decoder raises when the previous entry's chunks were not consumed.
NextEntry(e) ==
    /\ pc = "stream"
    /\ Fits(files, prefix \o e.path, e.chunks)
    /\ IF pos < Len(cur.chunks)
       THEN /\ Raise("UnfinishedIterationError")
            /\ UNCHANGED <<cur, pos, is_textfile, file_bytes>>
       ELSE /\ cur' = [path |-> prefix \o e.path, chunks |-> e.chunks]
            /\ pos' = 0
            /\ is_textfile' = IsTextfile(prefix \o e.path)
            /\ file_bytes' = None
            /\ pc' = "chunks"
            /\ UNCHANGED <<epubs, error>>
    /\ UNCHANGED <<prefix, container, rootfiles, files, idx, built, publications, dumped>>
    /\ UNCHANGED wrapvars

\* read_unzipped_chunks: one more chunk is taken from the entry's iterator.
ReadChunk ==
    /\ pc = "chunks"
    /\ ~LoopExit(is_textfile, pos, Len(cur.chunks))
    /\ file_bytes' = ChunkStep(file_bytes, cur.chunks[pos + 1], is_textfile)
    /\ pos' = pos + 1
    /\ UNCHANGED <<prefix, pc, cur, is_textfile, container, rootfiles, files, idx,
                   built, publications, epubs, error, dumped>>
    /\ UNCHANGED wrapvars

\* read_unzipped_chunks returns, and uncompress_epub finishes the iteration.
StoreCurrent ==
    /\ pc = "chunks"
    /\ LoopExit(is_textfile, pos, Len(cur.chunks))
    /\ LET r == StoreEntry(files, rootfiles, container, cur.path, file_bytes) IN
          /\ files' = r.files
          /\ rootfiles' = r.rootfiles
          /\ container' = r.container
    /\ pc' = "stream"
    /\ UNCHANGED <<prefix, cur, pos, is_textfile, file_bytes, idx, built, publications,
                   epubs, error, dumped>>
    /\ UNCHANGED wrapvars

\* The stream ends: the rootfile check and normalize_path.
EndOfStream ==
    /\ pc = "stream"
    /\ IF pos < Len(cur.chunks)
       THEN /\ Raise("UnfinishedIterationError")
            /\ UNCHANGED files
       ELSE LET r == UncompressEnd(rootfiles, files) IN
            IF r.error # ""
            THEN /\ Raise(r.error)
                 /\ UNCHANGED files
            ELSE /\ files' = r.files
                 /\ pc' = "read"
                 /\ UNCHANGED <<epubs, error>>
    /\ UNCHANGED <<prefix, cur, pos, is_textfile, file_bytes, container, rootfiles, idx,
                   built, publications, dumped>>
    /\ UNCHANGED wrapvars

\* read_uncompressed_epubs: one iteration of its loop.
ReadRootfile ==
    /\ pc = "read"
    /\ idx <= Len(rootfiles)
    /\ LET rootfile_path == NextRootfile(rootfiles, idx)
           r == ReadRootfileBody(rootfile_path, files)
       IN IF r.error # ""
          THEN /\ Raise(r.error)
               /\ UNCHANGED <<idx, built, publications>>
          ELSE /\ publications' = Append(publications, Epub(r.texts))
               /\ built' = Append(built, rootfile_path)
               /\ idx' = idx + 1
               /\ UNCHANGED <<pc, epubs, error>>
    /\ UNCHANGED <<prefix, cur, pos, is_textfile, file_bytes, container, rootfiles, files,
                   dumped>>
    /\ UNCHANGED wrapvars

\* read_uncompressed_epubs and read return the publications.
Return ==
    /\ pc = "read"
    /\ idx > Len(rootfiles)
    /\ pc' = "done"
    /\ epubs' = Some(publications)
    /\ UNCHANGED <<prefix, cur, pos, is_textfile, file_bytes, container, rootfiles, files,
                   idx, built, publications, error, dumped>>
    /\ UNCHANGED wrapvars

\* The caller calls dump_contents() on the k-th Epub returned.
Dump(k) ==
    /\ pc = "done"
    /\ k \in 1..Len(Val(epubs))
    /\ dumped' = Some([epub |-> k, text |-> dump_contents(Val(epubs)[k])])
    /\ UNCHANGED <<prefix, pc, cur, pos, is_textfile, file_bytes, container, rootfiles,
                   files, idx, built, publications, epubs, error>>
    /\ UNCHANGED wrapvars

Next ==
    \/ \E e \in Entries : NextEntry(e)
    \/ ReadChunk
    \/ StoreCurrent
    \/ EndOfStream
    \/ ReadRootfile
    \/ Return
    \/ \E k \in 1..Len(publications) : Dump(k)

Spec == Init /\ [][Next]_vars

(***************************************************************************)
(* The paired run: read() on an archive and on the same archive with every *)
(* entry path prefixed by one directory segment.                           *)
(***************************************************************************)
WrapInit ==
    /\ MainInit
    /\ prefix = <<>>
    /\ wpc = "stream"
    /\ wprefix \in WrapPrefixes
    /\ plain = [files |-> EmptyFiles, rootfiles |-> <<>>]
    /\ wrapped = [files |-> EmptyFiles, rootfiles |-> <<>>]
    /\ wres = None

\* Both decoders yield their next entry, and both loops run one iteration.
WrapEntry(e) ==
    /\ wpc = "stream"
    /\ Fits(plain.files, e.path, e.chunks)
    /\ plain' = Ingest(plain, e.path, e.chunks)
    /\ wrapped' = Ingest(wrapped, wprefix \o e.path, e.chunks)
    /\ UNCHANGED <<wpc, wprefix, wres>>
    /\ UNCHANGED mainvars

\* Both streams end, and both calls of read() finish.
WrapRead ==
    /\ wpc = "stream"
    /\ wpc' = "read"
    /\ wres' = Some([plain |-> ReadResult(plain), wrapped |-> ReadResult(wrapped)])
    /\ UNCHANGED <<wprefix, plain, wrapped>>
    /\ UNCHANGED mainvars

WrapNext ==
    \/ \E e \in Entries : WrapEntry(e)
    \/ WrapRead

WrapSpec == WrapInit /\ [][WrapNext]_vars

(***************************************************************************)
(* Definitions the properties are stated with.  They say what the          *)
(* specification says, independently of the operators above.               *)
(***************************************************************************)
\* The paths of the model never collide under normalize_path.
NoCollision ==
    \A fs \in {files, plain.files, wrapped.files} :
        \A p, q \in DOMAIN fs :
            (Len(Split(p)) > 1 /\ Len(Split(q)) > 1 /\ Tail(Split(p)) = Tail(Split(q)))
                => p = q

RECURSIVE QualifyingPaths(_)
\* The full-path values of the rootfile elements of a container document
\* whose media-type is application/oebps-package+xml and whose full-path is
\* present and not empty, in document order.
QualifyingPaths(doc) ==
    IF Len(doc) = 0 THEN <<>>
    ELSE LET e == Head(doc) IN
         (IF /\ e.tag = "container:rootfile"
             /\ e.mt = Some(OEBPS_PACKAGE)
             /\ e.ref # None
             /\ e.ref # Some(<<>>)
          THEN <<Val(e.ref)>> ELSE <<>>)
         \o QualifyingPaths(Tail(doc))

\* The rootfiles the archive declares: those of the container.xml read
\* last, none when there was no container.xml.
Declared == IF container = None THEN <<>> ELSE QualifyingPaths(Val(container))

\* The media type of a manifest item, normalized.
NormalizedMediaType(item) ==
    IF item.mt = Some("image/jpg") THEN Some("image/jpeg") ELSE item.mt

\* The items of the manifest of the package document at rootfile_path.
ManifestItems(rootfile_path) ==
    LET tree == files[rootfile_path]
        m == FindManifest(tree)
    IN IF m = 0 THEN <<>>
       ELSE SelectSeq(ManifestIter(tree, m), LAMBDA e : e.tag = "opf:item")

\* Its content documents: the items of media type application/xhtml+xml
\* that have an href, in manifest order.
ContentDocuments(rootfile_path) ==
    SelectSeq(ManifestItems(rootfile_path),
              LAMBDA e : NormalizedMediaType(e) = Some(XHTML) /\ e.ref # None)

\* The file map key the code looks an href up under.
LookupKey(rootfile_path, href) == NormalizedPath(RootfileDir(rootfile_path), href)

\* A content document whose key is no key of the file map.
Dangling(rootfile_path) ==
    { k \in 1..Len(ContentDocuments(rootfile_path)) :
        LookupKey(rootfile_path, Val(ContentDocuments(rootfile_path)[k].ref))
            \notin DOMAIN files }

RECURSIVE Concatenation(_)
\* The strings of a sequence, concatenated in order.
Concatenation(texts) ==
    IF Len(texts) = 0 THEN "" ELSE Head(texts) \o Concatenation(Tail(texts))

\* The directory that contains the rootfile: what precedes the last "/".
ContainingDirectory(rootfile_path) ==
    SubSeq(rootfile_path, 1, RFind(rootfile_path, "/", Len(rootfile_path)) - 1)

\* An href resolved relative to the rootfile's directory.
ResolvedHref(rootfile_path, href) ==
    IF ContainingDirectory(rootfile_path) = <<>> THEN href
    ELSE ContainingDirectory(rootfile_path) \o <<"/">> \o href

Lower(c) ==
    CASE c = "C" -> "c" [] c = "F" -> "f" [] c = "H" -> "h" [] c = "L" -> "l"
      [] c = "M" -> "m" [] c = "O" -> "o" [] c = "P" -> "p" [] c = "T" -> "t"
      [] c = "X" -> "x" [] OTHER -> c

\* The extension of a path, lowercased, with its leading dot.
LowercasedExtension(filepath) ==
    [k \in 1..Len(Suffix(filepath)) |-> Lower(Suffix(filepath)[k])]

(***************************************************************************)
(* Properties.                                                             *)
(***************************************************************************)
\* C1: when read returns for an archive whose container.xml declares N
\* qualifying rootfiles, it returns exactly N Epubs, and the i-th Epub is
\* the one built from the i-th declared rootfile path (declaration order,
\* duplicates kept).
C1_OneEpubPerRootfile ==
    pc = "done" =>
        /\ Len(Val(epubs)) = Len(Declared)
        /\ built = Declared
        /\ \A i \in 1..Len(Declared) :
              /\ Declared[i] \in DOMAIN files
              /\ Val(epubs)[i] = Epub(ReadRootfileBody(Declared[i], files).texts)

\* C1 witness: read returned three Epubs for three declared rootfiles, the
\* second of them declared twice, and the first two Epubs differ.
C1_Witness ==
    /\ pc = "done"
    /\ Len(Val(epubs)) = 3
    /\ Declared[2] = Declared[3]
    /\ Declared[1] # Declared[2]
    /\ Val(epubs)[1] # Val(epubs)[2]

\* C2: the texts of every Epub returned by read are the conversions of the
\* manifest items of media type application/xhtml+xml that have an href,
\* one string per such item, in manifest order, and nothing else.
C2_TextsAreContentDocuments ==
    pc = "done" =>
        \A i \in 1..Len(Val(epubs)) :
            LET docs == ContentDocuments(rootfiles[i]) IN
            /\ Dangling(rootfiles[i]) = {}
            /\ Val(epubs)[i].texts =
                  [k \in 1..Len(docs) |->
                      html2text(files[LookupKey(rootfiles[i], Val(docs[k].ref))])]

\* C2 witness: an Epub with two different texts from a manifest that also
\* holds items that are no content documents.
C2_Witness ==
    /\ pc = "done"
    /\ \E i \in 1..Len(Val(epubs)) :
          /\ Len(Val(epubs)[i].texts) = 2
          /\ Val(epubs)[i].texts[1] # Val(epubs)[i].texts[2]
          /\ Len(ManifestItems(rootfiles[i])) > 2

\* C3: dump_contents() of an Epub is the concatenation of its texts in
\* order with nothing inserted, and the call leaves the texts as they were.
C3_DumpIsConcatenation ==
    /\ [](dumped # None =>
            Val(dumped).text = Concatenation(Val(epubs)[Val(dumped).epub].texts))
    /\ [][dumped' # dumped => (epubs' = epubs /\ publications' = publications)]_vars

\* C3 witness: dump_contents() was called on an Epub of two texts.
C3_Witness ==
    /\ dumped # None
    /\ Len(Val(epubs)[Val(dumped).epub].texts) = 2
    /\ Val(dumped).text # ""

\* C4: an Epub list is returned only when no content document of any
\* rootfile is missing from the file map, a failed read returns nothing,
\* and extracting a rootfile that has a missing content document raises
\* the lookup error.
C4_DanglingReferenceFails ==
    /\ [](pc = "done" =>
            \A i \in 1..Len(rootfiles) :
                /\ Dangling(rootfiles[i]) = {}
                /\ Len(Val(epubs)[i].texts) = Len(ContentDocuments(rootfiles[i])))
    /\ [](pc = "failed" => epubs = None)
    /\ [][(/\ pc = "read"
           /\ idx <= Len(rootfiles)
           /\ rootfiles[idx] \in DOMAIN files
           /\ Dangling(rootfiles[idx]) # {})
          => (pc' = "failed" /\ error' = "KeyError" /\ epubs' = None)]_vars

\* C4 witness: read failed with the lookup error on a rootfile whose first
\* content document is in the file map and whose second is not.
C4_Witness ==
    /\ pc = "failed"
    /\ error = "KeyError"
    /\ idx <= Len(rootfiles)
    /\ rootfiles[idx] \in DOMAIN files
    /\ Dangling(rootfiles[idx]) = {2}

\* C5, as stated: whenever read succeeds on an archive, read on the archive
\* with every entry path prefixed by one directory segment succeeds with
\* the same Epubs.
C5_WrappedEqualsUnwrapped ==
    (wres # None /\ Val(wres).plain.error = "") =>
        /\ Val(wres).wrapped.error = ""
        /\ Val(wres).wrapped.epubs = Val(wres).plain.epubs

\* C5, amended: whenever read succeeds on an archive whose first declared
\* rootfile path is a retained entry path as it stands, and that path is
\* no retained entry path of the wrapped archive, read on the wrapped
\* archive succeeds with the same Epubs.
C5_WrappedEqualsUnwrappedAtRoot ==
    (/\ wres # None
     /\ Val(wres).plain.error = ""
     /\ plain.rootfiles[1] \in DOMAIN plain.files
     /\ wrapped.rootfiles[1] \notin DOMAIN wrapped.files)
    => /\ Val(wres).wrapped.error = ""
       /\ Val(wres).wrapped.epubs = Val(wres).plain.epubs

\* C5 witness: both reads succeeded, the wrapped one after normalization,
\* with an Epub of two texts.
C5_Witness ==
    /\ wres # None
    /\ Val(wres).plain.error = ""
    /\ plain.rootfiles[1] \in DOMAIN plain.files
    /\ wrapped.rootfiles[1] \notin DOMAIN wrapped.files
    /\ DOMAIN wrapped.files # DOMAIN plain.files
    /\ \E i \in 1..Len(Val(wres).wrapped.epubs) : Len(Val(wres).wrapped.epubs[i].texts) = 2

\* C6: once the stream has ended on an archive that declares no qualifying
\* rootfile (or has no container.xml), read has failed with
\* MalformedEpubException, no Epub was produced and no manifest is parsed.
C6_NoRootfileIsMalformed ==
    (pc \in {"read", "done", "failed"} /\ Declared = <<>>) =>
        /\ pc = "failed"
        /\ error = "MalformedEpubException"
        /\ epubs = None
        /\ publications = <<>>

\* C7: the key looked up for every content document of the rootfile being
\* extracted is the href resolved against the directory that contains the
\* rootfile.
C7_HrefRelativeToRootfileDirectory ==
    (pc = "read" /\ idx <= Len(rootfiles) /\ rootfiles[idx] \in DOMAIN files) =>
        \A k \in 1..Len(ContentDocuments(rootfiles[idx])) :
            LET href == Val(ContentDocuments(rootfiles[idx])[k].ref) IN
            LookupKey(rootfiles[idx], href) = ResolvedHref(rootfiles[idx], href)

\* C8: whenever the next entry is requested from the decoder, every chunk
\* of the previous entry has been consumed and the decoder never raises its
\* unfinished-iteration error; the chunks of a non-textual entry are not
\* accumulated, and no non-textual path is a key of the file map.
C8_EntriesAreDrained ==
    /\ pc = "stream" => pos = Len(cur.chunks)
    /\ error # "UnfinishedIterationError"
    /\ ~is_textfile => file_bytes = None
    /\ \A p \in DOMAIN files : Suffix(p) \in CONTENT_FILETYPES

\* C8 witness: a non-textual entry of two chunks was drained, and the next
\* entry can be requested, with textual entries already in the file map.
C8_Witness ==
    /\ pc = "stream"
    /\ ~is_textfile
    /\ Len(cur.chunks) = 2
    /\ pos = 2
    /\ file_bytes = None
    /\ files # EmptyFiles

\* C9: an entry is classified as retained if and only if its extension,
\* lowercased and with its leading dot, is one of .xhtml, .xml, .opf.
C9_ClassificationIgnoresCase ==
    pc = "chunks" =>
        (is_textfile <=> LowercasedExtension(cur.path) \in CONTENT_FILETYPES)

\* C10: the rootfiles resolved from a container.xml are exactly the
\* full-path values of its rootfile elements of media type
\* application/oebps-package+xml whose full-path is present and not empty,
\* in document order with duplicates.
C10_RootfilesAreQualifyingPaths ==
    container # None => rootfiles = QualifyingPaths(Val(container))

====
